---------------------------- MODULE Spec2Model ----------------------------
(***************************************************************************)
(* Model of Tools/CIWorkflow/TestValidator.py (roOs): the campaign loop of *)
(* __main__, the flag patcher UpdateTestFile, the report extractor         *)
(* ParseInputFile with its duplicate-key hook, and Validate.               *)
(*                                                                         *)
(* Text is modelled as sequences of tokens.  A line of the configuration   *)
(* file is a sequence of the tokens below, without its final newline       *)
(* (every line of the file is newline-terminated).  Each token stands for  *)
(* a fixed piece of text whose length is TokLen:                           *)
(*    "D"  "#define "           "T"  "TEST_"        "E"  "_ENABLED"        *)
(*    "FRAMEWORK_", "NAME"      pieces of TEST_FRAMEWORK_TEST_NAME         *)
(*    "M"  " * TESTING ENABLE FLAGS"                                       *)
(*    "A", "B"  one-letter flag names, "L" a 29-letter flag name           *)
(*    " ", "0", "1", "Q" (a double quote), "G0".."G4" group names,         *)
(*    "x"  any other text                                                  *)
(***************************************************************************)
EXTENDS Integers, Sequences, FiniteSets, TLC

VARIABLES
    pc,            \* position of __main__ in its loop
    groups,        \* jsonObject: the list read from the group file
    idx,           \* index (1-based) of the group the for loop is at
    total,         \* total counter
    success,       \* success counter
    error,         \* error counter
    testList,      \* lines of the configuration file (testListFileName)
    outFile,       \* lines of the run output file (testOutputFileName)
    proc,          \* the spawned run process
    jsonTestsuite, \* what ParseInputFile returned (or raised)
    exitState,     \* how and with which value the process ended
    hist,          \* the steps the cycle of the current group went through
    verdicts,      \* per finished group, how its cycle ended
    prevList,      \* the configuration file before the last UpdateTestFile
    detail         \* the cases whose detail Validate printed in this cycle

vars == <<pc, groups, idx, total, success, error, testList, outFile, proc,
          jsonTestsuite, exitState, hist, verdicts, prevList, detail>>

---------------------------------------------------------------------------
(* Bounds *)

MaxGroups == 2

---------------------------------------------------------------------------
(* Text helpers *)

Min(S) == CHOOSE m \in S : \A n \in S : m <= n

\* Length in characters of the text a token stands for.
TokLen(t) ==
    CASE t = "D" -> 8
      [] t = "T" -> 5
      [] t = "E" -> 8
      [] t = "FRAMEWORK_" -> 10
      [] t = "NAME" -> 4
      [] t = "M" -> 23
      [] t = "L" -> 29
      [] t \in {"G0", "G1", "G2", "G3", "G4"} -> 2
      [] OTHER -> 1

RECURSIVE StrLen(_)
StrLen(s) == IF s = <<>> THEN 0 ELSE TokLen(Head(s)) + StrLen(Tail(s))

\* " " * n : the empty string when n is not positive.
Spaces(n) == IF n <= 0 THEN <<>> ELSE [k \in 1..n |-> " "]

\* pat occurs in line at position i.
OccursAt(line, i, pat) ==
    /\ i + Len(pat) - 1 <= Len(line)
    /\ SubSeq(line, i, i + Len(pat) - 1) = pat

\* re.search of a literal pattern: does pat occur anywhere in line.
Search(line, pat) == \E i \in 1..Len(line) : OccursAt(line, i, pat)

\* namePattern: "TEST_FRAMEWORK_TEST_NAME".
namePattern == <<"T", "FRAMEWORK_", "T", "NAME">>

\* " \* TESTING ENABLE FLAGS".
markerPattern == <<"M">>

\* Positions at which "TEST_(.*?)_ENABLED" can start matching in line.
FlagStarts(line) ==
    {i \in 1..Len(line) :
        /\ line[i] = "T"
        /\ \E j \in (i+1)..Len(line) : line[j] = "E"}

\* re.search("TEST_(.*?)_ENABLED", line) != None
FlagSearch(line) == FlagStarts(line) # {}

\* result.group(0): leftmost start, then the shortest match from it.
FlagGroup0(line) ==
    LET s == Min(FlagStarts(line))
        e == Min({j \in (s+1)..Len(line) : line[j] = "E"})
    IN  SubSeq(line, s, e)

\* "#define TEST_FRAMEWORK_TEST_NAME \"{}\"\n".format(testName)
NameLine(testName) ==
    <<"D", "T", "FRAMEWORK_", "T", "NAME", " ", "Q", testName, "Q">>

\* newLine + " " * (50 - len(newLine)) + value + "\n"
PadColumn == 50

PaddedLine(newLine, value) ==
    newLine \o Spaces(PadColumn - StrLen(newLine)) \o <<value>>

\* "#define {}".format(result.group(0)) padded, value 0
DisabledLine(line) == PaddedLine(<<"D">> \o FlagGroup0(line), "0")

\* "TEST_{}_ENABLED".format(testFlag)
EnablePattern(testFlag) == <<"T">> \o testFlag \o <<"E">>

\* Variant: the enabled line is written without the _ENABLED suffix.
EnabledLine_NoSuffix(testFlag) ==
    PaddedLine(<<"D", "T">> \o testFlag, "1")

\* "#define TEST_{}_ENABLED".format(testFlag) padded, value 1
EnabledLine(testFlag) == PaddedLine(<<"D">> \o EnablePattern(testFlag), "1")

\* list.insert(pos0, x) with a 0-based position, clamped to the list end.
ListInsert(s, pos0, x) ==
    LET p == IF pos0 > Len(s) THEN Len(s) ELSE pos0
    IN  SubSeq(s, 1, p) \o <<x>> \o SubSeq(s, p + 1, Len(s))

---------------------------------------------------------------------------
(* UpdateTestFile.  Positions are 0-based as in the source; -1 = none. *)

\* First loop (lines 118-133): rewrite the first name line, disable every
\* flag line, remember the first flag line.
RECURSIVE DisablePass(_, _, _, _, _)
DisablePass(fileContent, testName, i, nameFound, startPosition) ==
    IF i >= Len(fileContent)
    THEN [fileContent |-> fileContent, startPosition |-> startPosition]
    ELSE LET line == fileContent[i + 1] IN
         IF ~nameFound /\ Search(line, namePattern)
         THEN DisablePass([fileContent EXCEPT ![i + 1] = NameLine(testName)],
                          testName, i + 1, TRUE, startPosition)
         ELSE IF FlagSearch(line)
         THEN DisablePass([fileContent EXCEPT ![i + 1] = DisabledLine(line)],
                          testName, i + 1, nameFound,
                          IF startPosition = -1 THEN i ELSE startPosition)
         ELSE DisablePass(fileContent, testName, i + 1, nameFound,
                          startPosition)

\* Second loop (lines 136-142): the constants section, two lines after the
\* last marker line; -1 when there is no marker.
MarkerStart(fileContent) ==
    LET hits == {i \in 0..(Len(fileContent) - 1) :
                    Search(fileContent[i + 1], markerPattern)}
    IN  IF hits = {} THEN -1
        ELSE (CHOOSE m \in hits : \A n \in hits : n <= m) + 2

\* Body of the third loop (lines 151-162) for one flag.
EnableFlag(fileContent, startPosition, testFlag) ==
    LET hits == {i \in startPosition..(Len(fileContent) - 1) :
                    Search(fileContent[i + 1], EnablePattern(testFlag))}
    IN  IF hits # {}
        THEN [fileContent EXCEPT ![Min(hits) + 1] = EnabledLine(testFlag)]
        ELSE ListInsert(fileContent, startPosition + 1, EnabledLine(testFlag))

\* Third loop (line 150): the flags of the group, in list order.
RECURSIVE EnablePass(_, _, _)
EnablePass(fileContent, startPosition, testGroup) ==
    IF testGroup = <<>> THEN fileContent
    ELSE EnablePass(EnableFlag(fileContent, startPosition, Head(testGroup)),
                    startPosition, Tail(testGroup))

\* Variant: without an anchor, the flags are added at the top of the file.
UpdateTestFile_NoExit(fileLines, testGroup, testName) ==
    LET p1  == DisablePass(fileLines, testName, 0, FALSE, -1)
        pos == IF p1.startPosition # -1 THEN p1.startPosition
               ELSE MarkerStart(p1.fileContent)
    IN  [ok |-> TRUE,
         file |-> EnablePass(p1.fileContent, IF pos = -1 THEN 0 ELSE pos,
                             testGroup)]

\* UpdateTestFile(filename, testGroup, testName) on the lines of the file:
\* ok = FALSE is exit(-1) at line 147, with the file not written.
UpdateTestFile(fileLines, testGroup, testName) ==
    LET p1  == DisablePass(fileLines, testName, 0, FALSE, -1)
        pos == IF p1.startPosition # -1 THEN p1.startPosition
               ELSE MarkerStart(p1.fileContent)
    IN  IF pos = -1
        THEN [ok |-> FALSE, file |-> fileLines]
        ELSE [ok |-> TRUE,
              file |-> EnablePass(p1.fileContent, pos, testGroup)]

---------------------------------------------------------------------------
(* The run output file.  A line is one token:                              *)
(*    "START"  "#-------- TESTING SECTION START --------#"                 *)
(*    "END"    "#-------- TESTING SECTION END --------#"                   *)
(*    "noise"  console text that is not JSON                               *)
(*    "{" "}"  an object opening / closing brace                           *)
(*    "HDR"    the members version, name, number_of_tests, success         *)
(*    "F0" "F1"  the member failures with value 0 / 1                      *)
(*    "TS{"    the member name test_suite and its opening brace            *)
(*    "c1p" "c1f" "c2p" "c2f"  a case member: id c1 / c2, status 1 / 0     *)
(* separators between members are taken to be right.                       *)

startSentinel == "START"
endSentinel   == "END"

EmptyDict == [k \in {} |-> 0]

\* DictRaiseDuplicate(ordPairs), lines 77-85: dup = TRUE is the ValueError.
RECURSIVE DictLoop(_, _)
DictLoop(ordPairs, d) ==
    IF ordPairs = <<>> THEN [dup |-> FALSE, d |-> d]
    ELSE LET k == Head(ordPairs)[1]
             v == Head(ordPairs)[2]
         IN  IF k \in DOMAIN d
             THEN [dup |-> TRUE, d |-> d]
             ELSE DictLoop(Tail(ordPairs),
                           [x \in DOMAIN d \cup {k} |->
                               IF x = k THEN v ELSE d[x]])

\* Variant: a plain dict, a repeated key keeps its last value.
DictRaiseDuplicate_Overwrite(ordPairs) ==
    [dup |-> FALSE,
     d |-> [k \in {ordPairs[i][1] : i \in 1..Len(ordPairs)} |->
              LET last == CHOOSE i \in 1..Len(ordPairs) :
                              /\ ordPairs[i][1] = k
                              /\ \A j \in (i+1)..Len(ordPairs) :
                                     ordPairs[j][1] # k
              IN  ordPairs[last][2]]]

DictRaiseDuplicate(ordPairs) == DictLoop(ordPairs, EmptyDict)

\* The (key, value) pairs a member line of the top-level object carries.
TopPairs(tok) ==
    CASE tok = "HDR" -> << <<"version", 1>>, <<"name", 1>>,
                           <<"number_of_tests", 1>>, <<"success", 1>> >>
      [] tok = "F0"  -> << <<"failures", 0>> >>
      [] tok = "F1"  -> << <<"failures", 1>> >>
      [] OTHER       -> << >>

TopToks == {"HDR", "F0", "F1"}

\* The (id, content) pair of a case line; content has the four members.
CasePair(tok) ==
    CASE tok = "c1p" -> <<"c1", [status |-> 1, expected |-> 1, result |-> 1, type |-> 0]>>
      [] tok = "c1f" -> <<"c1", [status |-> 0, expected |-> 1, result |-> 0, type |-> 0]>>
      [] tok = "c2p" -> <<"c2", [status |-> 1, expected |-> 1, result |-> 1, type |-> 0]>>
      [] tok = "c2f" -> <<"c2", [status |-> 0, expected |-> 1, result |-> 0, type |-> 0]>>

CaseToks == {"c1p", "c1f", "c2p", "c2f"}

Malformed == [kind |-> "JSONDecodeError"]
Duplicate == [kind |-> "ValueError"]

\* json.loads(jsonBody, object_pairs_hook=DictRaiseDuplicate), line 105: the
\* decoder reads the text left to right and calls the hook when an object
\* closes, the nested object first.  mode "top" is inside the top-level
\* object, "suite" inside test_suite, "end" after the top-level object.
RECURSIVE JsonScan(_, _, _, _, _, _)
JsonScan(body, i, mode, topPairs, casePairs, value) ==
    IF i > Len(body)
    THEN IF mode = "end" THEN [kind |-> "value", value |-> value]
         ELSE Malformed
    ELSE LET tok == body[i] IN
      CASE mode = "begin" ->
             IF tok = "{"
             THEN JsonScan(body, i + 1, "top", <<>>, <<>>, value)
             ELSE Malformed
        [] mode = "top" ->
             IF tok \in TopToks
             THEN JsonScan(body, i + 1, "top", topPairs \o TopPairs(tok),
                           <<>>, value)
             ELSE IF tok = "TS{"
             THEN JsonScan(body, i + 1, "suite", topPairs, <<>>, value)
             ELSE IF tok = "}"
             THEN LET r == DictRaiseDuplicate(topPairs) IN
                  IF r.dup THEN Duplicate
                  ELSE JsonScan(body, i + 1, "end", <<>>, <<>>, r.d)
             ELSE Malformed
        [] mode = "suite" ->
             IF tok \in CaseToks
             THEN JsonScan(body, i + 1, "suite", topPairs,
                           Append(casePairs, CasePair(tok)), value)
             ELSE IF tok = "}"
             THEN LET r == DictRaiseDuplicate(casePairs) IN
                  IF r.dup THEN Duplicate
                  ELSE JsonScan(body, i + 1, "top",
                                Append(topPairs, <<"test_suite", r.d>>),
                                <<>>, value)
             ELSE Malformed
        [] OTHER -> Malformed  \* text after the document: "Extra data"

JsonLoads(jsonBody) == JsonScan(jsonBody, 1, "begin", <<>>, <<>>, EmptyDict)

\* Variant: every end sentinel switches the flag.
RECURSIVE ScanLines_EndToggles(_, _, _)
ScanLines_EndToggles(fileContent, isTestsuiteContent, jsonBody) ==
    IF fileContent = <<>> THEN jsonBody
    ELSE LET line == Head(fileContent) IN
         IF line = startSentinel
         THEN ScanLines_EndToggles(Tail(fileContent), TRUE, jsonBody)
         ELSE IF line = endSentinel
         THEN ScanLines_EndToggles(Tail(fileContent), ~isTestsuiteContent,
                                   jsonBody)
         ELSE ScanLines_EndToggles(Tail(fileContent), isTestsuiteContent,
                        IF isTestsuiteContent THEN Append(jsonBody, line)
                        ELSE jsonBody)

\* The scanning loop of ParseInputFile, lines 92-100: the lines kept in
\* jsonBody, each one followed by a newline.
RECURSIVE ScanLines(_, _, _)
ScanLines(fileContent, isTestsuiteContent, jsonBody) ==
    IF fileContent = <<>> THEN jsonBody
    ELSE LET line == Head(fileContent) IN
         IF line = startSentinel
         THEN ScanLines(Tail(fileContent), TRUE, jsonBody)
         ELSE IF line = endSentinel
         THEN ScanLines(Tail(fileContent), FALSE, jsonBody)
         ELSE ScanLines(Tail(fileContent), isTestsuiteContent,
                        IF isTestsuiteContent THEN Append(jsonBody, line)
                        ELSE jsonBody)

\* Variant: the empty buffer is handed to the decoder.
ParseInputFile_NoEmptyCheck(fileContent) ==
    JsonLoads(ScanLines(fileContent, FALSE, <<>>))

\* ParseInputFile(filename) on the lines of the file: kind "empty" is the
\* returned "", "value" a returned object, the other kinds a raised error.
ParseInputFile(fileContent) ==
    LET jsonBody == ScanLines(fileContent, FALSE, <<>>)
    IN  IF Len(jsonBody) = 0 THEN [kind |-> "empty"]
        ELSE JsonLoads(jsonBody)

\* len(jsonTestsuite) at line 231.
ValueLen(r) == IF r.kind = "value" THEN Cardinality(DOMAIN r.value) ELSE 0

\* Validate(jsonTestsuite), lines 39-74: the keys it reads; a missing one
\* is a KeyError.
ValidateKeys == {"version", "name", "number_of_tests", "success",
                 "failures", "test_suite"}

\* Variant: the number of failures is counted from the cases' status.
Validate_Recount(d) ==
    IF ValidateKeys \subseteq DOMAIN d
    THEN LET failed == {id \in DOMAIN d["test_suite"] :
                           d["test_suite"][id].status = 0}
         IN  [kind |-> "return", ret |-> Cardinality(failed),
              detail |-> failed]
    ELSE [kind |-> "KeyError", ret |-> -1, detail |-> {}]

Validate(d) ==
    IF ValidateKeys \subseteq DOMAIN d
    THEN [kind |-> "return", ret |-> d["failures"],
          detail |-> {id \in DOMAIN d["test_suite"] :
                         d["test_suite"][id].status = 0}]
    ELSE [kind |-> "KeyError", ret |-> -1, detail |-> {}]

---------------------------------------------------------------------------
(* Inputs *)

FlagA  == <<"A">>
FlagB  == <<"B">>
FlagTA == <<"T", "A">>      \* the flag named TEST_A
FlagL  == <<"L">>           \* a flag with a 29-letter name

\* A definition line of the configuration file, value in the fixed column.
Def(flag, value) == PaddedLine(<<"D", "T">> \o flag \o <<"E">>, value)

\* The keys __main__ reads of an entry of the group-definition file.
EntryKeys == {"name", "group"}

\* Entries of the group-definition file: keys are the keys the JSON object
\* has.  The last entry has no "group" key.
GroupDefs ==
    { [name |-> "G1", group |-> <<FlagA, FlagB>>, keys |-> EntryKeys],
      [name |-> "G2", group |-> <<FlagB>>, keys |-> EntryKeys],
      [name |-> "G3", group |-> <<FlagTA, FlagA>>, keys |-> EntryKeys],
      [name |-> "G4", group |-> <<FlagL>>, keys |-> EntryKeys],
      [name |-> "G5", group |-> <<>>, keys |-> {"name"}] }

RECURSIVE SeqsUpTo(_, _)
SeqsUpTo(S, n) ==
    IF n = 0 THEN {<<>>}
    ELSE LET shorter == SeqsUpTo(S, n - 1)
         IN  shorter \cup {Append(q, e) : q \in shorter, e \in S}

Campaigns == SeqsUpTo(GroupDefs, MaxGroups)

\* Configuration files: with flag lines, with the section marker only, with
\* the marker as last line, without any anchor, with the flag TEST_A.
ConfigFiles ==
    { << <<"M">>, <<"x">>, Def(FlagA, "0"), Def(FlagB, "1"),
         NameLine("G0"), <<"x">> >>,
      << <<"M">>, <<"x">>, <<"x">>, NameLine("G0") >>,
      << NameLine("G0"), <<"M">> >>,
      << NameLine("G0"), <<"x">> >>,
      << NameLine("G0"), Def(FlagTA, "0"), Def(FlagA, "0") >> }

\* What a run prints, line by line.
Scripts ==
    { <<"noise">>,
      <<"noise", "START", "{", "HDR", "F0", "TS{", "c1p", "c2p", "}", "}", "END">>,
      <<"START", "{", "HDR", "F1", "TS{", "c1f", "}", "}", "END", "noise">>,
      <<"START", "{", "HDR", "F0", "TS{", "c1p", "c1p", "}", "}", "END">>,
      <<"START", "{", "HDR", "F1", "TS{", "c1p", "c1f", "}", "}", "END">>,
      <<"START", "{", "HDR", "F0", "TS{", "c1f", "}", "}", "END">>,
      <<"START", "{", "noise", "}", "END">>,
      <<"START", "{", "F0", "}", "END">>,
      <<"END", "START", "START", "{", "}", "END", "END", "noise">> }

\* Exit statuses of an external command: success and one failure.
ExitCodes == {0, 2}

---------------------------------------------------------------------------
(* __main__ *)

NoProc == [state |-> "none", script |-> <<>>, written |-> 0, status |-> 0]

Init ==
    /\ pc = "start"
    /\ groups \in Campaigns
    /\ idx = 1
    /\ total = 0
    /\ success = 0
    /\ error = 0
    /\ testList \in ConfigFiles
    /\ outFile = <<>>
    /\ proc = NoProc
    /\ jsonTestsuite = [kind |-> "none"]
    /\ exitState = [kind |-> "running", code |-> 0]
    /\ hist = <<>>
    /\ verdicts = <<>>
    /\ prevList = <<>>
    /\ detail = {}

\* An uncaught exception: traceback, interpreter exit status 1.
Raise == /\ exitState' = [kind |-> "exception", code |-> 1]
         /\ pc' = "halt"

\* The same, raised while reading the group-definition file or one of its
\* entries (JSONDecodeError of line 194, KeyError of lines 198-199).
RaiseConfig == /\ exitState' = [kind |-> "configException", code |-> 1]
               /\ pc' = "halt"

\* continue / end of the loop body: on to the next group.
NextIteration(verdict) ==
    /\ verdicts' = Append(verdicts, verdict)
    /\ idx' = idx + 1
    /\ pc' = "for"

\* Lines 186-194: counters set, group file read.  json.loads raises when
\* the file is not well-formed JSON; groups is what it returns otherwise.
ReadGroups ==
    /\ pc = "start"
    /\ \E wellFormed \in BOOLEAN :
         IF wellFormed THEN pc' = "for" /\ UNCHANGED exitState
         ELSE RaiseConfig
    /\ UNCHANGED <<groups, idx, total, success, error, testList, outFile,
                   proc, jsonTestsuite, hist, verdicts, prevList, detail>>

\* Lines 196-203: the loop takes the next group, prints its banner and
\* counts it; after the last group the loop ends.
ForNext ==
    /\ pc = "for"
    /\ IF idx <= Len(groups)
       THEN IF EntryKeys \subseteq groups[idx].keys
            THEN /\ total' = total + 1
                 /\ hist' = <<>>
                 /\ detail' = {}
                 /\ pc' = "patch"
                 /\ UNCHANGED exitState
            ELSE /\ RaiseConfig
                 /\ UNCHANGED <<total, hist, detail>>
       ELSE /\ pc' = "report"
            /\ UNCHANGED <<total, hist, detail, exitState>>
    /\ UNCHANGED <<groups, idx, success, error, testList, outFile, proc,
                   jsonTestsuite, verdicts, prevList>>

\* Line 206: UpdateTestFile; exit(-1) when no anchor is found.
Patch ==
    /\ pc = "patch"
    /\ LET r == UpdateTestFile(testList, groups[idx].group, groups[idx].name)
       IN  IF r.ok
           THEN /\ testList' = r.file
                /\ prevList' = testList
                /\ hist' = Append(hist, "patch")
                /\ pc' = "clean"
                /\ UNCHANGED exitState
           ELSE /\ exitState' = [kind |-> "exit", code |-> -1]
                /\ pc' = "halt"
                /\ UNCHANGED <<testList, hist, prevList>>
    /\ UNCHANGED <<groups, idx, total, success, error, outFile, proc,
                   jsonTestsuite, verdicts, detail>>

\* Variant: a failed make clean skips the group without counting it.
Clean_NoCount ==
    /\ pc = "clean"
    /\ \E retValue \in ExitCodes :
         /\ hist' = Append(hist, IF retValue = 0 THEN "clean"
                                 ELSE "cleanFailed")
         /\ IF retValue # 0
            THEN NextIteration("error")
            ELSE /\ pc' = "build"
                 /\ UNCHANGED <<idx, verdicts>>
         /\ UNCHANGED error
    /\ UNCHANGED <<groups, total, success, testList, outFile, proc,
                   jsonTestsuite, exitState, prevList, detail>>

\* Lines 208-211: make clean.
Clean ==
    /\ pc = "clean"
    /\ \E retValue \in ExitCodes :
         /\ hist' = Append(hist, IF retValue = 0 THEN "clean"
                                 ELSE "cleanFailed")
         /\ IF retValue # 0
            THEN /\ error' = error + 1
                 /\ NextIteration("error")
            ELSE /\ pc' = "build"
                 /\ UNCHANGED <<error, idx, verdicts>>
    /\ UNCHANGED <<groups, total, success, testList, outFile, proc,
                   jsonTestsuite, exitState, prevList, detail>>

\* Variant: a failed build is counted but the loop body goes on.
Build_FallThrough ==
    /\ pc = "build"
    /\ \E retValue \in ExitCodes :
         /\ hist' = Append(hist, IF retValue = 0 THEN "build"
                                 ELSE "buildFailed")
         /\ error' = IF retValue # 0 THEN error + 1 ELSE error
         /\ pc' = "spawn"
         /\ UNCHANGED <<idx, verdicts>>
    /\ UNCHANGED <<groups, total, success, testList, outFile, proc,
                   jsonTestsuite, exitState, prevList, detail>>

\* Lines 213-216: make target=... TESTS=TRUE.
Build ==
    /\ pc = "build"
    /\ \E retValue \in ExitCodes :
         /\ hist' = Append(hist, IF retValue = 0 THEN "build"
                                 ELSE "buildFailed")
         /\ IF retValue # 0
            THEN /\ error' = error + 1
                 /\ NextIteration("error")
            ELSE /\ pc' = "spawn"
                 /\ UNCHANGED <<error, idx, verdicts>>
    /\ UNCHANGED <<groups, total, success, testList, outFile, proc,
                   jsonTestsuite, exitState, prevList, detail>>

\* Variant: the output file is opened for appending.
Spawn_Append ==
    /\ pc = "spawn"
    /\ outFile' = outFile
    /\ \E s \in Scripts :
         proc' = [state |-> "running", script |-> s, written |-> 0,
                  status |-> 0]
    /\ hist' = Append(hist, "spawn")
    /\ pc' = "wait"
    /\ UNCHANGED <<groups, idx, total, success, error, testList,
                   jsonTestsuite, exitState, verdicts, prevList, detail>>

\* Lines 219-220: the output file is opened for writing (truncated) and the
\* run process is started with its stdout on it.
Spawn ==
    /\ pc = "spawn"
    /\ outFile' = <<>>
    /\ \E s \in Scripts :
         proc' = [state |-> "running", script |-> s, written |-> 0,
                  status |-> 0]
    /\ hist' = Append(hist, "spawn")
    /\ pc' = "wait"
    /\ UNCHANGED <<groups, idx, total, success, error, testList,
                   jsonTestsuite, exitState, verdicts, prevList, detail>>

\* The run process prints its next line.
ProcWrite ==
    /\ proc.state = "running"
    /\ proc.written < Len(proc.script)
    /\ outFile' = Append(outFile, proc.script[proc.written + 1])
    /\ proc' = [proc EXCEPT !.written = @ + 1]
    /\ UNCHANGED <<pc, groups, idx, total, success, error, testList,
                   jsonTestsuite, exitState, hist, verdicts, prevList, detail>>

\* The run process ends by itself, with some exit status.
ProcExit ==
    /\ proc.state = "running"
    /\ proc.written = Len(proc.script)
    /\ \E st \in ExitCodes :
         proc' = [proc EXCEPT !.state = "exited", !.status = st]
    /\ UNCHANGED <<pc, groups, idx, total, success, error, testList, outFile,
                   jsonTestsuite, exitState, hist, verdicts, prevList, detail>>

\* Variant: the run process is not waited for.
WaitReturn_NoWait ==
    /\ pc = "wait"
    /\ hist' = Append(hist, IF proc.status = 0 THEN "exit" ELSE "exitFailed")
    /\ pc' = "sync"
    /\ UNCHANGED <<groups, idx, total, success, error, testList, outFile,
                   proc, jsonTestsuite, exitState, verdicts, prevList,
                   detail>>

\* Line 222: p.wait(30) returns because the process has ended; the value
\* it returns is not kept.
WaitReturn ==
    /\ pc = "wait"
    /\ proc.state = "exited"
    /\ hist' = Append(hist, IF proc.status = 0 THEN "exit" ELSE "exitFailed")
    /\ pc' = "sync"
    /\ UNCHANGED <<groups, idx, total, success, error, testList, outFile,
                   proc, jsonTestsuite, exitState, verdicts, prevList, detail>>

\* Variant: a timed-out run is an error of the group, its output is not
\* read.
WaitTimeout_NoExtract ==
    /\ pc = "wait"
    /\ proc.state = "running"
    /\ proc' = [proc EXCEPT !.state = "killed"]
    /\ hist' = Append(hist, "kill")
    /\ error' = error + 1
    /\ NextIteration("error")
    /\ UNCHANGED <<groups, total, success, testList, outFile,
                   jsonTestsuite, exitState, prevList, detail>>

\* Lines 223-224: the wait times out, the process is killed.
WaitTimeout ==
    /\ pc = "wait"
    /\ proc.state = "running"
    /\ proc' = [proc EXCEPT !.state = "killed"]
    /\ hist' = Append(hist, "kill")
    /\ pc' = "sync"
    /\ UNCHANGED <<groups, idx, total, success, error, testList, outFile,
                   jsonTestsuite, exitState, verdicts, prevList, detail>>

\* Lines 226-228: the output file is closed, os.sync().
Sync ==
    /\ pc = "sync"
    /\ hist' = Append(hist, "sync")
    /\ pc' = "parse"
    /\ UNCHANGED <<groups, idx, total, success, error, testList, outFile,
                   proc, jsonTestsuite, exitState, verdicts, prevList, detail>>

\* Line 230: ParseInputFile; an error it raises is not caught.
Extract ==
    /\ pc = "parse"
    /\ jsonTestsuite' = ParseInputFile(outFile)
    /\ hist' = Append(hist, "parse")
    /\ IF jsonTestsuite'.kind \in {"empty", "value"}
       THEN pc' = "check" /\ UNCHANGED exitState
       ELSE Raise
    /\ UNCHANGED <<groups, idx, total, success, error, testList, outFile,
                   proc, verdicts, prevList, detail>>

\* Lines 231-239: the verdict of the group.
Check ==
    /\ pc = "check"
    /\ IF ValueLen(jsonTestsuite) # 0
       THEN LET v == Validate(jsonTestsuite.value) IN
            IF v.kind = "return"
            THEN /\ hist' = Append(hist, "validate")
                 /\ detail' = v.detail
                 /\ IF v.ret = 0
                    THEN /\ success' = success + 1
                         /\ NextIteration("success")
                         /\ UNCHANGED error
                    ELSE /\ error' = error + 1
                         /\ NextIteration("error")
                         /\ UNCHANGED success
                 /\ UNCHANGED exitState
            ELSE /\ Raise
                 /\ UNCHANGED <<hist, success, error, idx, verdicts,
                                detail>>
       ELSE /\ error' = error + 1
            /\ NextIteration("error")
            /\ hist' = Append(hist, "missing")
            /\ UNCHANGED <<success, exitState, detail>>
    /\ UNCHANGED <<groups, total, testList, outFile, proc, jsonTestsuite,
                   prevList>>

\* Lines 241-249: the final report, exit(error).
FinalReport ==
    /\ pc = "report"
    /\ exitState' = [kind |-> "exit", code |-> error]
    /\ pc' = "done"
    /\ UNCHANGED <<groups, idx, total, success, error, testList, outFile,
                   proc, jsonTestsuite, hist, verdicts, prevList, detail>>

Next ==
    \/ ReadGroups
    \/ ForNext
    \/ Patch
    \/ Clean
    \/ Build
    \/ Spawn
    \/ ProcWrite
    \/ ProcExit
    \/ WaitReturn
    \/ WaitTimeout
    \/ Sync
    \/ Extract
    \/ Check
    \/ FinalReport

Spec == Init /\ [][Next]_vars

\* The exit status the operating system reports: 8 bits.
ExitStatus ==
    IF exitState.kind \in {"exception", "configException"} THEN 1
    ELSE exitState.code % 256

---------------------------------------------------------------------------
(* A long campaign: the exit status after 256 groups *)

\* Number of groups of the long campaign: the number of values of the 8-bit
\* exit status.
LongLen == 256

\* The iterations of the long campaign that are taken in one step.
FailedFirst == LongLen - 2

\* The group file of the long campaign: LongLen times the same entry.
LongCampaign ==
    [i \in 1..LongLen |->
        [name |-> "G2", group |-> <<FlagB>>, keys |-> EntryKeys]]

\* UpdateTestFile for one entry of the group file.
PatchFor(file, entry) == UpdateTestFile(file, entry.group, entry.name)

InitLong ==
    /\ pc = "start"
    /\ groups = LongCampaign
    /\ idx = 1
    /\ total = 0
    /\ success = 0
    /\ error = 0
    /\ testList \in {f \in ConfigFiles : PatchFor(f, LongCampaign[1]).ok}
    /\ outFile = <<>>
    /\ proc = NoProc
    /\ jsonTestsuite = [kind |-> "none"]
    /\ exitState = [kind |-> "running", code |-> 0]
    /\ hist = <<>>
    /\ verdicts = <<>>
    /\ prevList = <<>>
    /\ detail = {}

\* Lines 186-211, the first FailedFirst iterations in one step: the group
\* file is read and, in each of these iterations, the group is counted
\* (line 203), patched (line 206), and make clean returns non-zero, which
\* counts an error and continues with the next group (lines 208-211).
\* The entries are all the same and the third call of UpdateTestFile leaves
\* the file as the second left it, so every later call does too.
FirstCyclesFail ==
    /\ pc = "start"
    /\ FailedFirst >= 3
    /\ \A i \in 1..FailedFirst : groups[i] = groups[1]
    /\ LET p1 == PatchFor(testList, groups[1])
           p2 == PatchFor(p1.file, groups[1])
           p3 == PatchFor(p2.file, groups[1])
       IN  /\ p1.ok /\ p2.ok /\ p3.ok
           /\ p3.file = p2.file
           /\ testList' = p2.file
           /\ prevList' = p2.file
    /\ total' = total + FailedFirst
    /\ error' = error + FailedFirst
    /\ idx' = idx + FailedFirst
    /\ verdicts' = [i \in 1..FailedFirst |-> "error"]
    /\ hist' = <<"patch", "cleanFailed">>
    /\ pc' = "for"
    /\ UNCHANGED <<groups, success, outFile, proc, jsonTestsuite, exitState,
                   detail>>

\* The long campaign: its last two groups step by step.
NextLong ==
    \/ FirstCyclesFail
    \/ ForNext
    \/ Patch
    \/ Clean
    \/ Build
    \/ Spawn
    \/ ProcWrite
    \/ ProcExit
    \/ WaitReturn
    \/ WaitTimeout
    \/ Sync
    \/ Extract
    \/ Check
    \/ FinalReport

SpecLong == InitLong /\ [][NextLong]_vars

---------------------------------------------------------------------------
(* Observations used by the properties *)

Last(q) == q[Len(q)]

InSeq(q, e) == \E i \in 1..Len(q) : q[i] = e

SeqRange(q) == {q[i] : i \in 1..Len(q)}

AllFlags == {FlagA, FlagB, FlagTA, FlagL}

\* line reads, for the C preprocessor, as the definition of the macro
\* TEST_<flag>_ENABLED with the given value: name, white space, value.
IsDefinition(line, flag, value) ==
    \E n \in 1..PadColumn :
        line = <<"D", "T">> \o flag \o <<"E">> \o Spaces(n) \o <<value>>

\* The flags some line of the file defines with value 1.
EnabledFlagSet(file) ==
    {f \in AllFlags : \E i \in 1..Len(file) : IsDefinition(file[i], f, "1")}

\* No flag is defined on two lines of the file.
NoDuplicateDefinition(file) ==
    \A f \in AllFlags : \A i, j \in 1..Len(file) :
        ( /\ \E v \in {"0", "1"} : IsDefinition(file[i], f, v)
          /\ \E v \in {"0", "1"} : IsDefinition(file[j], f, v) ) => i = j

\* The process has ended.
Ended == pc \in {"done", "halt"}

\* Number of finished groups whose cycle reached a validated report with
\* zero failures.
Validated == Cardinality({i \in 1..Len(verdicts) : verdicts[i] = "success"})

\* ParseInputFile raised an error.
ParseErrors == {"JSONDecodeError", "ValueError"}

---------------------------------------------------------------------------
(* Properties *)

\* C1: when the process has ended (other than by the fatal anchor error or
\* a fatal error of the group-definition file), its exit code is the number
\* of groups attempted that did not reach a validated zero-failure report.
C1_ExitCodeIsErrorCount ==
    ( /\ Ended
      /\ ~(exitState.kind = "exit" /\ exitState.code = -1)
      /\ exitState.kind # "configException" )
        => ExitStatus = total - Validated

\* C2: right after a group was patched into the configuration file, the
\* flags defined with value 1 are exactly the flags of that group.
C2_EnabledIsGroup ==
    (pc = "clean")
        => EnabledFlagSet(testList) = SeqRange(groups[idx].group)

\* C3: patching the same group a second time, right after the first, leaves
\* the file as the first patch left it, with no flag defined twice.
C3_PatchIdempotent ==
    (pc = "clean" /\ idx > 1 /\ groups[idx] = groups[idx - 1])
        => /\ testList = prevList
           /\ EnabledFlagSet(testList) = EnabledFlagSet(prevList)
           /\ NoDuplicateDefinition(testList)

\* C4: a report that fails to parse does not end the process with an
\* uncaught error: the group is counted as an error and the campaign goes on
\* to its final summary.
C4_ParseFailureIsLocal ==
    (jsonTestsuite.kind \in ParseErrors)
        => /\ exitState.kind # "exception"
           /\ pc # "halt"
           /\ Len(verdicts) >= idx - 1

\* C5: a group whose run command ended with a non-zero exit status is never
\* counted as a success.
C5_RunFailureIsError ==
    (InSeq(hist, "exitFailed") /\ Len(verdicts) = total /\ total > 0)
        => Last(verdicts) = "error"

\* The steps of a group's cycle that come after its build.
RunSteps == {"spawn", "exit", "exitFailed", "kill", "sync", "parse",
             "validate", "missing"}

\* C6: when make clean or the build returns non-zero, the group is counted
\* once as an error, nothing of its run, extraction or validation happens,
\* and the loop is at the next group.
C6_BuildFailureSkipsRun ==
    [][ /\ ( /\ pc \in {"clean", "build"}
             /\ hist' # hist
             /\ Last(hist') \in {"cleanFailed", "buildFailed"} )
           => /\ error' = error + 1
              /\ success' = success
              /\ total' = total
              /\ verdicts' = Append(verdicts, "error")
              /\ idx' = idx + 1
              /\ pc' = "for"
              /\ proc' = proc
              /\ outFile' = outFile
              /\ jsonTestsuite' = jsonTestsuite
              /\ SeqRange(hist') \cap RunSteps = {}
        /\ (pc \in {"for", "report"})
           => (error' = error /\ success' = success) ]_vars

\* C6 witness: the first group ended as an error without a run process ever
\* being spawned, and the loop is in the second group.
C6_Witness ==
    /\ pc = "patch"
    /\ idx = 2
    /\ verdicts = <<"error">>
    /\ error = 1
    /\ proc.state = "none"

\* The returned object has the keys Validate reads and failures is 0.
ZeroFailureReport(r) ==
    /\ r.kind = "value"
    /\ ValidateKeys \subseteq DOMAIN r.value
    /\ r.value["failures"] = 0

\* C7: a run still executing at the timeout is killed, the output file is
\* kept as captured, extraction is attempted on it, an empty result counts
\* the group once as an error and a valid zero-failure report as a success,
\* and the loop goes to the next group.
C7_TimeoutStillExtracts ==
    [][ /\ (pc = "wait" /\ proc.state = "running" /\ pc' # "wait")
           => /\ proc'.state = "killed"
              /\ outFile' = outFile
              /\ pc' = "sync"
        /\ InSeq(hist, "kill")
           => /\ proc.state = "killed"
              /\ proc' = proc
              /\ outFile' = outFile
              /\ outFile = SubSeq(proc.script, 1, proc.written)
              /\ (pc = "sync") => (pc' = "parse")
              /\ (pc = "parse") => (Last(hist') = "parse")
              /\ (pc = "check" /\ jsonTestsuite.kind = "empty")
                 => /\ error' = error + 1
                    /\ success' = success
                    /\ verdicts' = Append(verdicts, "error")
                    /\ idx' = idx + 1
                    /\ pc' = "for"
              /\ (pc = "check" /\ ZeroFailureReport(jsonTestsuite))
                 => /\ success' = success + 1
                    /\ error' = error
                    /\ verdicts' = Append(verdicts, "success")
                    /\ idx' = idx + 1
                    /\ pc' = "for" ]_vars

\* C7 witness: a group whose run was killed at the timeout ended as a
\* success on the report captured before the kill.
C7_Witness ==
    /\ pc = "for"
    /\ InSeq(hist, "kill")
    /\ Last(hist) = "validate"
    /\ Last(verdicts) = "success"
    /\ proc.state = "killed"

\* The text has a start sentinel line followed, later, by an end sentinel.
HasSentinelPair(f) ==
    \E i, j \in 1..Len(f) :
        i < j /\ f[i] = startSentinel /\ f[j] = endSentinel

\* Extraction has just been done on outFile.
Extracted == hist # <<>> /\ Last(hist) = "parse"

\* C8 as stated: an output without a complete sentinel pair is extracted as
\* Empty, without an error.
C8_NoPairIsEmpty ==
    (Extracted /\ ~HasSentinelPair(outFile))
        => jsonTestsuite.kind = "empty"

\* C8 amended: an output without a complete sentinel pair in which no line
\* other than a start sentinel follows a start sentinel is extracted as
\* Empty, without an error.
C8_NoRegionLineIsEmpty ==
    ( /\ Extracted
      /\ ~HasSentinelPair(outFile)
      /\ \A i, j \in 1..Len(outFile) :
            (i < j /\ outFile[i] = startSentinel)
                => outFile[j] = startSentinel )
        => jsonTestsuite.kind = "empty"

\* C8 witness: extraction returned Empty on an output that ends with a
\* start sentinel and has no end sentinel.
C8_Witness ==
    /\ Extracted
    /\ outFile # <<>>
    /\ Last(outFile) = startSentinel
    /\ ~InSeq(outFile, endSentinel)
    /\ jsonTestsuite.kind = "empty"

\* Two case lines of the text carry the same case id.
HasDuplicateCase(q) ==
    \E i, j \in 1..Len(q) :
        /\ i < j
        /\ q[i] \in CaseToks
        /\ q[j] \in CaseToks
        /\ CasePair(q[i])[1] = CasePair(q[j])[1]

\* The text is one region: a start sentinel, then lines, then an end
\* sentinel, and no other sentinel.
OneRegion(f) ==
    /\ Cardinality({i \in 1..Len(f) : f[i] = startSentinel}) = 1
    /\ Cardinality({i \in 1..Len(f) : f[i] = endSentinel}) = 1
    /\ HasSentinelPair(f)

RegionOf(f) ==
    LET s == CHOOSE i \in 1..Len(f) : f[i] = startSentinel
        e == CHOOSE i \in 1..Len(f) : f[i] = endSentinel
    IN  SubSeq(f, s + 1, e - 1)

\* b is a JSON document: an object of members with one test_suite object of
\* cases.
ReportSyntax(b) ==
    /\ Len(b) >= 4
    /\ b[1] = "{"
    /\ b[Len(b)] = "}"
    /\ \E a, c \in 2..(Len(b) - 1) :
         /\ a < c
         /\ b[a] = "TS{"
         /\ b[c] = "}"
         /\ \A k \in 2..(a - 1) : b[k] \in TopToks
         /\ \A k \in (a + 1)..(c - 1) : b[k] \in CaseToks
         /\ \A k \in (c + 1)..(Len(b) - 1) : b[k] \in TopToks

\* C9: when the same case id appears twice in the output, extraction fails
\* and returns no report, whether the two entries are equal or not; when
\* the region is otherwise a well-formed document the failure is the
\* duplicate-id error.
C9_DuplicateIdRejected ==
    (Extracted /\ HasDuplicateCase(outFile))
        => /\ jsonTestsuite.kind \in ParseErrors
           /\ (OneRegion(outFile) /\ ReportSyntax(RegionOf(outFile)))
                 => jsonTestsuite.kind = "ValueError"

\* C9 witness: extraction raised the duplicate-id error on a region in
\* which the case c1 appears once passed and once failed.
C9_Witness ==
    /\ Extracted
    /\ InSeq(outFile, "c1p")
    /\ InSeq(outFile, "c1f")
    /\ OneRegion(outFile)
    /\ jsonTestsuite.kind = "ValueError"

\* No line of the file is a flag line or the section marker.
NoAnchor(file) ==
    \A i \in 1..Len(file) :
        ~FlagSearch(file[i]) /\ ~Search(file[i], markerPattern)

\* C10: patching a file without flag line and without section marker ends
\* the process at once with exit(-1): the file is not written, no clean,
\* build or run of the group has started, and nothing happens afterwards.
C10_NoAnchorIsFatal ==
    [][ /\ (pc = "patch" /\ NoAnchor(testList))
           => /\ pc' = "halt"
              /\ exitState' = [kind |-> "exit", code |-> -1]
              /\ hist = <<>>
              /\ UNCHANGED <<groups, idx, total, success, error, testList,
                             outFile, proc, jsonTestsuite, hist, verdicts,
                             prevList, detail>>
        /\ pc # "halt" ]_vars

\* C10 witness: the process ended with exit(-1) in the first of two groups,
\* the file still without anchor, no process ever spawned.
C10_Witness ==
    /\ pc = "halt"
    /\ exitState = [kind |-> "exit", code |-> -1]
    /\ Len(groups) = 2
    /\ idx = 1
    /\ NoAnchor(testList)
    /\ testList \in ConfigFiles
    /\ proc.state = "none"

\* C11: when the campaign has ended with its final report and at least one
\* group ended in error, the exit status the caller observes is not 0.
C11_ErrorGivesNonZeroStatus ==
    (pc = "done" /\ InSeq(verdicts, "error")) => ExitStatus # 0

\* The process is between two groups, or past the last one.
AtBoundary == pc \in {"for", "report", "done"}

\* Number of finished groups whose cycle ended as an error.
Failed == Cardinality({i \in 1..Len(verdicts) : verdicts[i] = "error"})

\* C12: every finished cycle incremented exactly one of success and error,
\* once: the counters are the numbers of cycles that ended each way.  total
\* counts the groups attempted: at every group boundary and at the final
\* summary it is the number of finished cycles and equals success + error;
\* inside a cycle it is one more.
C12_CounterInvariant ==
    /\ success = Validated
    /\ error = Failed
    /\ success + error = Len(verdicts)
    /\ AtBoundary => /\ total = idx - 1
                     /\ total = Len(verdicts)
                     /\ total = success + error
    /\ (pc \notin {"start", "halt"} /\ ~AtBoundary)
          => total = success + error + 1

\* C12 witness: the final summary of a campaign of two groups, one counted
\* as success and one as error.
C12_Witness ==
    /\ pc = "done"
    /\ total = 2
    /\ success = 1
    /\ error = 1

\* The fields of a test case of the report schema.
CaseKeys == {"status", "expected", "result", "type"}

\* d has the shape of a test-suite report: every field of the report and of
\* each of its cases is present.
MatchesSchema(d) ==
    /\ ValidateKeys \subseteq DOMAIN d
    /\ \A id \in DOMAIN d["test_suite"] :
           CaseKeys \subseteq DOMAIN d["test_suite"][id]

\* C13: a non-empty value that ParseInputFile returned has the shape of a
\* test-suite report, so the value handed to Validate lacks no field.
C13_ExtractedMatchesSchema ==
    (jsonTestsuite.kind = "value" /\ ValueLen(jsonTestsuite) # 0)
        => MatchesSchema(jsonTestsuite.value)

\* Some entry of the group file lacks its name or its group field.
MalformedEntry ==
    \E i \in 1..Len(groups) : ~(EntryKeys \subseteq groups[i].keys)

\* C14: when the group-definition file is not well-formed or one of its
\* entries lacks a name or a group field, the configuration file is never
\* patched and no clean, build or run of any group is ever started.
C14_MalformedGroupFileRunsNothing ==
    (MalformedEntry \/ exitState.kind = "configException")
        => /\ prevList = <<>>
           /\ hist = <<>>
           /\ verdicts = <<>>
           /\ proc = NoProc

\* The cycle of the last group ended with Validate returning.
JustValidated == hist # <<>> /\ Last(hist) = "validate"

\* The ids of the cases the run printed with status 0.
PrintedFailedCases ==
    {CasePair(outFile[i])[1] :
        i \in {j \in 1..Len(outFile) :
                  /\ outFile[j] \in CaseToks
                  /\ CasePair(outFile[j])[2].status = 0}}

\* C15: a group whose report was validated is counted as success exactly
\* when the failures counter of the report is 0 and as error when it is
\* not, whatever the status of the cases; the cases whose detail was
\* printed are exactly the cases of status 0.
C15_VerdictIsFailuresCounter ==
    JustValidated
        => /\ jsonTestsuite.kind = "value"
           /\ (Last(verdicts) = "success")
                 <=> (jsonTestsuite.value["failures"] = 0)
           /\ (Last(verdicts) = "error")
                 <=> (jsonTestsuite.value["failures"] # 0)
           /\ detail = PrintedFailedCases

\* C15 witness: a group counted as success on a report whose failures
\* counter is 0 although one of its cases has status 0 and had its detail
\* printed.
C15_Witness ==
    /\ JustValidated
    /\ Last(verdicts) = "success"
    /\ jsonTestsuite.value["failures"] = 0
    /\ detail = {"c1"}

\* The steps of a cycle, in the order of the loop body.
CycleOrder ==
    << {"patch"}, {"clean", "cleanFailed"}, {"build", "buildFailed"},
       {"spawn"}, {"exit", "exitFailed", "kill"}, {"sync"}, {"parse"},
       {"validate", "missing"} >>

\* q is a beginning of a cycle taken in order.
InOrder(q) ==
    /\ Len(q) <= Len(CycleOrder)
    /\ \A i \in 1..Len(q) : q[i] \in CycleOrder[i]

\* C16: the steps of a group's cycle happen one at a time in the order
\* patch, clean, build, run, flush, extraction, validation; the run process
\* has exited or was killed, and the flush is done, before the output file
\* is read, and the file is not written afterwards; the groups are taken
\* one at a time in the order of the group file, a group starting only
\* when the cycles of all groups before it have ended.
C16_StepsInOrder ==
    [][ /\ InOrder(hist')
        /\ (hist' # hist)
              => \/ \E step \in UNION SeqRange(CycleOrder) :
                       hist' = Append(hist, step)
                 \/ pc = "for" /\ hist' = <<>>
        /\ InSeq(hist', "parse")
              => /\ proc'.state \in {"exited", "killed"}
                 /\ InSeq(hist', "sync")
        /\ (proc'.state = "running") => (pc' = "wait")
        /\ (outFile' # outFile) => (pc \in {"spawn", "wait"})
        /\ idx' \in {idx, idx + 1}
        /\ (idx' = idx + 1) => (pc' = "for" /\ Len(verdicts') = idx)
        /\ (pc = "for" /\ pc' = "patch") => (Len(verdicts) = idx - 1)
      ]_vars

\* C16 witness: the second group of a campaign went through its whole
\* cycle, its run killed at the timeout.
C16_Witness ==
    /\ pc = "for"
    /\ Len(verdicts) = 2
    /\ hist = <<"patch", "clean", "build", "spawn", "kill", "sync", "parse",
                "validate">>

\* The flags line defines, with value 0 or 1.
DefinedFlags(line) ==
    {f \in AllFlags : \E v \in {"0", "1"} : IsDefinition(line, f, v)}

\* Positions of the lines of file that define a flag.
DefinitionLines(file) ==
    {i \in 1..Len(file) : DefinedFlags(file[i]) # {}}

\* Position of the first campaign-name marker line of file, 0 if none.
FirstNameLine(file) ==
    LET at == {i \in 1..Len(file) : Search(file[i], namePattern)}
    IN  IF at = {} THEN 0 ELSE Min(at)

\* Position of the anchor of file: its first flag-definition line, else two
\* lines after its first section marker.
AnchorLine(file) ==
    IF DefinitionLines(file) # {} THEN Min(DefinitionLines(file))
    ELSE Min({i \in 1..Len(file) : Search(file[i], markerPattern)}) + 2

\* Line new may stand at the place of line number i of file old after a
\* patch for the campaign name: the first name marker line names the
\* campaign, a line defining a flag still defines that flag, any other line
\* is unchanged.
KeptLine(old, i, new, name) ==
    IF i = FirstNameLine(old) THEN new = NameLine(name)
    ELSE IF DefinedFlags(old[i]) # {}
         THEN DefinedFlags(new) = DefinedFlags(old[i])
         ELSE new = old[i]

\* C17: right after UpdateTestFile, every line of the file before the
\* patch is still there, in the same order: the first name marker line
\* rewritten, a flag-definition line still defining its flag, every other
\* line unchanged.  The lines added stand together immediately after the
\* anchor (at the end of a file that ends before it), and each is the
\* enabled definition of a flag of the group that had no definition.
C17_PatchFrame ==
    (pc = "clean")
        => LET k == Len(testList) - Len(prevList)
               p == IF AnchorLine(prevList) < Len(prevList)
                    THEN AnchorLine(prevList) + 1
                    ELSE Len(prevList) + 1
           IN  /\ k >= 0
               /\ \A i \in 1..Len(prevList) :
                      KeptLine(prevList, i,
                               testList[IF i < p THEN i ELSE i + k],
                               groups[idx].name)
               /\ \A j \in p..(p + k - 1) :
                      \E f \in SeqRange(groups[idx].group) :
                          /\ IsDefinition(testList[j], f, "1")
                          /\ \A i \in 1..Len(prevList) :
                                 f \notin DefinedFlags(prevList[i])

\* The flag is set when line number i of f is read: a start sentinel
\* stands before it with no end sentinel in between.
InsideAt(f, i) ==
    \E j \in 1..(i - 1) :
        /\ f[j] = startSentinel
        /\ \A k \in (j + 1)..(i - 1) : f[k] # endSentinel

\* The lines among the first n of f that are no sentinel and are read
\* while the flag is set, in order.
RECURSIVE InsideLines(_, _)
InsideLines(f, n) ==
    IF n = 0 THEN <<>>
    ELSE IF InsideAt(f, n) /\ f[n] \notin {startSentinel, endSentinel}
         THEN Append(InsideLines(f, n - 1), f[n])
         ELSE InsideLines(f, n - 1)

\* C18: the buffer ParseInputFile builds is the lines, in order, that are
\* no sentinel and are read while the flag is set, where a start sentinel
\* sets the flag and an end sentinel clears it wherever they stand; what it
\* returns or raises is the empty result for an empty buffer and else the
\* decoding of that buffer.
C18_BufferIsInsideLines ==
    Extracted
        => LET buffer == InsideLines(outFile, Len(outFile))
           IN  /\ ScanLines(outFile, FALSE, <<>>) = buffer
               /\ jsonTestsuite = IF buffer = <<>> THEN [kind |-> "empty"]
                                  ELSE JsonLoads(buffer)

\* C18 witness: extraction of an output with an end sentinel before any
\* start, a start sentinel inside the region, a second end sentinel and a
\* line after it gave the object of the region.
C18_Witness ==
    /\ Extracted
    /\ outFile = <<"END", "START", "START", "{", "}", "END", "END", "noise">>
    /\ jsonTestsuite.kind = "value"

\* The process ended with the fatal error of UpdateTestFile.
AnchorAbort == exitState.kind = "exit" /\ exitState.code = -1

\* C19: once UpdateTestFile has written the file, the file has a flag line
\* or the section marker, so that the next call finds an anchor; the fatal
\* anchor error happens only in the first group, before any patch.
C19_AnchorErrorOnlyFirst ==
    /\ (prevList # <<>>) => ~NoAnchor(testList)
    /\ AnchorAbort => /\ idx = 1
                      /\ verdicts = <<>>
                      /\ prevList = <<>>
                      /\ NoAnchor(testList)

\* C19 witness: the second group of a campaign was patched, after the cycle
\* of the first one ended, into the file the first patch left, which has
\* flag-definition lines and the section marker.
C19_Witness ==
    /\ pc = "clean"
    /\ idx = 2
    /\ Len(verdicts) = 1
    /\ DefinitionLines(prevList) # {}
    /\ \E i \in 1..Len(testList) : Search(testList[i], markerPattern)

\* What the last run process started has printed.
OwnOutput == SubSeq(proc.script, 1, proc.written)

\* C20: from the start of a group's run to its verdict the output file
\* holds what that run printed and nothing else; a group counted as
\* success was run and its own output holds a zero-failure report; a group
\* whose clean or build failed, or whose run printed no report, is counted
\* as error.
C20_JudgedOnOwnReport ==
    /\ (pc \in {"wait", "sync", "parse", "check"}) => (outFile = OwnOutput)
    /\ (AtBoundary /\ verdicts # <<>> /\ Last(verdicts) = "success")
          => /\ JustValidated
             /\ InSeq(hist, "spawn")
             /\ ZeroFailureReport(ParseInputFile(OwnOutput))
    /\ ( /\ AtBoundary
         /\ hist # <<>>
         /\ \/ Last(hist) \in {"cleanFailed", "buildFailed"}
            \/ /\ InSeq(hist, "parse")
               /\ ScanLines(OwnOutput, FALSE, <<>>) = <<>> )
          => Last(verdicts) = "error"

\* C20 witness: the first group was counted as success on its report; the
\* run of the second group printed no report and the group was counted as
\* error, the output file holding the second run's output only.
C20_Witness ==
    /\ pc = "for"
    /\ verdicts = <<"success", "error">>
    /\ Last(hist) = "missing"
    /\ outFile = <<"noise">>

=============================================================================
